---- MODULE Spec2Model ----
(***************************************************************************)
(* A model of logpool's ControlThreads (src/logpool/log.py): the grouped   *)
(* task pool, the leveled logger with its four sinks, and reconfigure.     *)
(* Every Python statement that reads or writes shared state is one step of *)
(* the thread that runs it, so that threads interleave as CPython lets     *)
(* them.                                                                   *)
(***************************************************************************)
EXTENDS Integers, Sequences, FiniteSets, TLC

VARIABLES
    self,       \* the attributes of the singleton `control`
    held,       \* the Lock objects (by identity) that are currently acquired
    pools,      \* pools[e+1]: executor object e, its max_workers and shutdown flag
    fut,        \* fut[h]: the Future object of the h-th accepted executor.submit,
                \* with the group it was submitted to
    fs,         \* fs[path]: the lines of the file at path
    console,    \* the lines printed so far
    cbsink,     \* the lines handed to the external callback so far
    th,         \* th[t]: position and locals of thread t
    nlog,       \* number of logging calls the caller threads have made
    nsub        \* nsub[g]: number of submit(..., group=g) calls that have returned

vars == <<self, held, pools, fut, fs, console, cbsink, th, nlog, nsub>>

----------------------------------------------------------------------------
(* Bounds of the model *)

MaxTasks == 2       \* tasks the pools accept
MaxReconf == 2      \* calls of reconfigure by an application that only logs
MaxPoolReconf == 1  \* calls of reconfigure by an application that submits tasks
MaxLogs == 2        \* logging calls of the application's threads
HostCpus == 4       \* psutil.cpu_count(logical=True) of the host

Main == -1                            \* the thread that configures the logger
Aux == -2                             \* a second thread of the application
Callers == {Main, Aux}
Handles == 1..MaxTasks
Threads == Callers \cup Handles       \* worker thread h runs the work item of future h
Groups == {"default", "A"}
Paths == {"f", "bak", "my bak"}       \* the files of the working directory
Dests == {"bak", "my bak"}            \* the paths finishLog is called with
None == "None"

----------------------------------------------------------------------------
(* Construction *)

\* The default of max_workers in __init__.
DefaultWorkers(cpus) == cpus - 2

\* control = ControlThreads(log_file=None, print_log=True, debug=True)
InitArgs ==
    [log_file |-> None, print_log |-> TRUE, debug |-> TRUE,
     max_workers |-> DefaultWorkers(HostCpus), use_process_pool |-> FALSE,
     keep_in_memory |-> FALSE, simple_log |-> FALSE, callback |-> None]

\* The argument sets reconfigure is called with.
ArgSets ==
    { [log_file |-> "f", print_log |-> FALSE, debug |-> FALSE,
       max_workers |-> 1, use_process_pool |-> FALSE,
       keep_in_memory |-> TRUE, simple_log |-> FALSE, callback |-> "cb"],
      [log_file |-> None, print_log |-> TRUE, debug |-> TRUE,
       max_workers |-> DefaultWorkers(HostCpus), use_process_pool |-> FALSE,
       keep_in_memory |-> FALSE, simple_log |-> TRUE, callback |-> None] }

\* reconfigure(log_file="f", print_log=False, debug=True, keep_in_memory=True,
\* callback=cb): debug output wanted in the file, the memory and the callback,
\* not on the console.
QuietDebugArgs ==
    [log_file |-> "f", print_log |-> FALSE, debug |-> TRUE,
     max_workers |-> 1, use_process_pool |-> FALSE,
     keep_in_memory |-> TRUE, simple_log |-> FALSE, callback |-> "cb"]

\* `self.simple_log = simple_log,` : the trailing comma builds a 1-tuple.
SimpleLogAttr(simple_log) == <<simple_log>>

\* Python truthiness of the attribute: a tuple is true iff it is not empty.
Truthy(tuple) == Len(tuple) > 0

\* self.tasks = {'default': []}
DefaultTasks == [g \in {"default"} |-> <<>>]

\* __init__, lines 65-78, with arguments a and the new Lock object l; the
\* executor attribute is assigned last, on line 80.
Construct(a, l, e) ==
    [lock |-> l, tasks |-> DefaultTasks, log_file |-> a.log_file,
     workers |-> a.max_workers, print_log |-> a.print_log,
     debug_mode |-> a.debug, use_process_pool |-> a.use_process_pool,
     simple_log |-> SimpleLogAttr(a.simple_log), callback |-> a.callback,
     keep_in_memory |-> a.keep_in_memory, memory |-> <<>>, executor |-> e]

\* What a finished call left to its caller: the call, how it ended, and the
\* values the properties below speak of.
NoRet == [op |-> "", out |-> "", err |-> "", g |-> "", h |-> 0, rv |-> 0, q |-> <<>>,
          cnt |-> 0, cpus |-> 0, file |-> None, dest |-> "", had |-> <<>>, lines |-> <<>>]

IdleThread ==
    [pc |-> "idle", g |-> "", h |-> 0, tipo |-> "", content |-> <<>>,
     plog |-> FALSE, msg |-> <<>>, lk |-> -1,
     args |-> InitArgs, cont |-> "idle", snap |-> <<>>,
     file |-> None, dest |-> "", had |-> <<>>, cpus |-> 0, ret |-> NoRet]

Init ==
    /\ self = Construct(InitArgs, 0, 0)
    /\ held = {}
    /\ pools = << [max_workers |-> InitArgs.max_workers, shutdown |-> FALSE] >>
    /\ fut = <<>>
    /\ fs = [p \in Paths |-> <<>>]
    /\ console = <<>>
    /\ cbsink = <<>>
    /\ th = [t \in Threads |-> IdleThread]
    /\ nlog = 0
    /\ nsub = [g \in Groups |-> 0]

\* Thread t returns from (or raises out of) the call it is in.
Return(t, r) == [IdleThread EXCEPT !.ret = r]

\* The arguments of line 243 on a host with n logical CPUs: the default of
\* max_workers is evaluated once, when the class body runs (line 48).
DefaultArgs(n) == [InitArgs EXCEPT !.max_workers = DefaultWorkers(n)]

\* The module is being imported on a host with 1..HostCpus logical CPUs: line
\* 243 is inside __init__, lines 65-78 have set the attributes, and line 80 has
\* yet to build the executor.
InitImport ==
    \E n \in 1..HostCpus :
        /\ self = [Construct(DefaultArgs(n), 0, 0) EXCEPT !.executor = -1]
        /\ held = {}
        /\ pools = <<>>
        /\ fut = <<>>
        /\ fs = [p \in Paths |-> <<>>]
        /\ console = <<>>
        /\ cbsink = <<>>
        /\ th = [t \in Threads |->
                   IF t = Main
                   THEN [IdleThread EXCEPT !.pc = "import", !.args = DefaultArgs(n),
                                           !.cpus = n]
                   ELSE IdleThread]
        /\ nlog = 0
        /\ nsub = [g \in Groups |-> 0]

\* The number of workers of ThreadPoolExecutor(max_workers) (line 80).
ExecutorWorkers(max_workers) == max_workers

\* Line 80 and the binding of `control` on line 243: ThreadPoolExecutor raises
\* ValueError("max_workers must be greater than 0") for a count below 1, and
\* the import of the module ends with that error.
Import(t) ==
    /\ th[t].pc = "import"
    /\ LET a == th[t].args  n == th[t].cpus IN
        IF a.max_workers <= 0
        THEN /\ th' = [th EXCEPT ![t] =
                         [IdleThread EXCEPT
                            !.pc = "import_error",
                            !.ret = [NoRet EXCEPT !.op = "import", !.out = "raised",
                                                  !.err = "ValueError", !.cpus = n]]]
             /\ UNCHANGED <<self, pools>>
        ELSE /\ pools' = << [max_workers |-> ExecutorWorkers(a.max_workers),
                             shutdown |-> FALSE] >>
             /\ self' = [self EXCEPT !.executor = 0]
             /\ th' = [th EXCEPT ![t] =
                         Return(t, [NoRet EXCEPT !.op = "import", !.out = "returned",
                                                 !.cpus = n])]
    /\ UNCHANGED <<held, fut, fs, console, cbsink, nlog, nsub>>

----------------------------------------------------------------------------
(* Logger *)

\* The default of wlog's print_log parameter; no caller passes another value.
WlogPrintLogDefault == TRUE

\* The tokens of the line wlog renders, in order (lines 161-171): "ts" stands
\* for the timestamp, "tid" for the thread's native id, "file" and "func" for
\* the caller's file basename and function name.
Format(tipo, content, simple_log, t) ==
    IF tipo = "[critical]" THEN <<"ts", tipo, "Thread", "tid">> \o content
    ELSE IF tipo = "[time]" THEN <<"ts", tipo>> \o content
    ELSE IF Truthy(simple_log) THEN <<tipo>> \o content
    ELSE <<"ts", tipo, "file", "func">> \o content

\* info, time, warn, critical: forward to wlog with the level's tag.
LogCall(t, tipo) ==
    /\ th[t].pc = "idle"
    /\ nlog < MaxLogs
    /\ nlog' = nlog + 1
    /\ th' = [th EXCEPT ![t] = [IdleThread EXCEPT !.pc = "wlog_emit", !.tipo = tipo,
                                    !.content = <<"hello">>,
                                    !.plog = WlogPrintLogDefault]]
    /\ UNCHANGED <<self, held, pools, fut, fs, console, cbsink, nsub>>

Info(t) == LogCall(t, "[info]")
Time(t) == LogCall(t, "[time]")
Warn(t) == LogCall(t, "[warning]")
Critical(t) == LogCall(t, "[critical]")

\* debug: forwards to wlog only when debug_mode is set.
Debug(t) ==
    /\ th[t].pc = "idle"
    /\ nlog < MaxLogs
    /\ nlog' = nlog + 1
    /\ th' = [th EXCEPT ![t] =
                IF self.debug_mode
                THEN [IdleThread EXCEPT !.pc = "wlog_emit", !.tipo = "[debug]",
                                        !.content = <<"hello">>,
                                        !.plog = WlogPrintLogDefault]
                ELSE Return(t, NoRet)]
    /\ UNCHANGED <<self, held, pools, fut, fs, console, cbsink, nsub>>

\* wlog, lines 156-175: render the line, print it, keep it in memory.
WlogEmit(t) ==
    /\ th[t].pc = "wlog_emit"
    /\ LET m == Format(th[t].tipo, th[t].content, self.simple_log, t) IN
        /\ console' = IF th[t].plog THEN Append(console, m) ELSE console
        /\ self' = IF self.keep_in_memory
                   THEN [self EXCEPT !.memory = Append(@, m)]
                   ELSE self
        /\ th' = [th EXCEPT ![t].msg = m, ![t].pc = "wlog_lock"]
    /\ UNCHANGED <<held, pools, fut, fs, cbsink, nlog, nsub>>

\* What the thread does after wlog ends: back to its caller, or into the rest of
\* submit when the completion hook ran inside add_done_callback.
AfterWlog(t, r) ==
    IF th[t].cont = "idle" THEN Return(t, r)
    ELSE [th[t] EXCEPT !.pc = th[t].cont, !.cont = "idle", !.tipo = "",
                       !.content = <<>>, !.msg = <<>>, !.plog = FALSE,
                       !.lk = -1]

\* wlog, lines 181-182: hand the line to the callback, if there is one.
CallbackSink(m) == IF self.callback # None THEN Append(cbsink, m) ELSE cbsink

\* wlog, lines 176-177: with no log file go on to the callback (181-182) and
\* return; else acquire the Lock object self.lock refers to now.
WlogLock(t) ==
    /\ th[t].pc = "wlog_lock"
    /\ IF self.log_file = None
       THEN /\ cbsink' = CallbackSink(th[t].msg)
            /\ th' = [th EXCEPT ![t] = AfterWlog(t, NoRet)]
            /\ UNCHANGED held
       ELSE /\ self.lock \notin held
            /\ held' = held \cup {self.lock}
            /\ th' = [th EXCEPT ![t].pc = "wlog_write", ![t].lk = self.lock]
            /\ UNCHANGED cbsink
    /\ UNCHANGED <<self, pools, fut, fs, console, nlog, nsub>>

\* (mutant) wlog opens the log file with mode 'w': each write truncates it.
WlogWriteTruncates(t) ==
    /\ th[t].pc = "wlog_write"
    /\ held' = held \ {th[t].lk}
    /\ IF self.log_file = None
       THEN /\ th' = [th EXCEPT ![t] =
                        AfterWlog(t, [NoRet EXCEPT !.op = th[t].tipo, !.out = "raised",
                                                   !.err = "TypeError"])]
            /\ UNCHANGED <<fs, cbsink>>
       ELSE /\ fs' = [fs EXCEPT ![self.log_file] = <<th[t].msg>>]
            /\ cbsink' = CallbackSink(th[t].msg)
            /\ th' = [th EXCEPT ![t] = AfterWlog(t, NoRet)]
    /\ UNCHANGED <<self, pools, fut, console, nlog, nsub>>

\* wlog, lines 178-182, inside `with self.lock`: open the file for append, write
\* the line, close it; leaving the with block releases the lock; then the
\* callback.  open(None) raises TypeError out of wlog.
WlogWrite(t) ==
    /\ th[t].pc = "wlog_write"
    /\ held' = held \ {th[t].lk}
    /\ IF self.log_file = None
       THEN /\ th' = [th EXCEPT ![t] =
                        AfterWlog(t, [NoRet EXCEPT !.op = th[t].tipo, !.out = "raised",
                                                   !.err = "TypeError"])]
            /\ UNCHANGED <<fs, cbsink>>
       ELSE /\ fs' = [fs EXCEPT ![self.log_file] = Append(@, th[t].msg)]
            /\ cbsink' = CallbackSink(th[t].msg)
            /\ th' = [th EXCEPT ![t] = AfterWlog(t, NoRet)]
    /\ UNCHANGED <<self, pools, fut, console, nlog, nsub>>

----------------------------------------------------------------------------
(* Log file operations *)

\* The message of the error get_logs raises when there is no log file.
NoLogFileError == "Exception: No log file was defined"

\* The lines of the file self.log_file names now (none when it names no file).
LiveLog == IF self.log_file = None THEN <<>> ELSE fs[self.log_file]

\* A file operation starts: the thread notes the log file and its lines as they
\* are when the call is made.
FileCall(t, next, d) ==
    [IdleThread EXCEPT !.pc = next, !.file = self.log_file, !.dest = d,
                       !.had = LiveLog]

\* A file operation ends with outcome out and error err.
FileRet(t, op, out, err, lines) ==
    Return(t, [NoRet EXCEPT !.op = op, !.out = out, !.err = err,
                            !.file = th[t].file, !.dest = th[t].dest,
                            !.had = th[t].had, !.lines = lines])

\* get_logs, lines 126-127: raise when self.log_file is None.
GetLogs(t) ==
    /\ th[t].pc = "idle"
    /\ th' = [th EXCEPT ![t] =
                IF self.log_file = None
                THEN [IdleThread EXCEPT
                        !.ret = [NoRet EXCEPT !.op = "get_logs", !.out = "raised",
                                              !.err = NoLogFileError]]
                ELSE FileCall(t, "gl_read", "")]
    /\ UNCHANGED <<self, held, pools, fut, fs, console, cbsink, nlog, nsub>>

\* get_logs, lines 128-129: open self.log_file for reading, return its lines.
GetLogsRead(t) ==
    /\ th[t].pc = "gl_read"
    /\ th' = [th EXCEPT ![t] =
                IF self.log_file = None
                THEN FileRet(t, "get_logs", "raised", "TypeError", <<>>)
                ELSE FileRet(t, "get_logs", "returned", "", fs[self.log_file])]
    /\ UNCHANGED <<self, held, pools, fut, fs, console, cbsink, nlog, nsub>>

\* (mutant) clear_logs that opens the file and closes it without truncating.
TruncateKeeps(t, op) ==
    /\ th' = [th EXCEPT ![t] =
                IF self.log_file = None
                THEN FileRet(t, op, "raised", "TypeError", <<>>)
                ELSE FileRet(t, op, "returned", "", <<>>)]
    /\ UNCHANGED fs

\* clear_logs, lines 219-220: open(self.log_file, 'w') truncates the file;
\* open(None, 'w') raises TypeError.  The thread is in operation op.
Truncate(t, op) ==
    IF self.log_file = None
    THEN /\ th' = [th EXCEPT ![t] = FileRet(t, op, "raised", "TypeError", <<>>)]
         /\ UNCHANGED fs
    ELSE /\ fs' = [fs EXCEPT ![self.log_file] = <<>>]
         /\ th' = [th EXCEPT ![t] = FileRet(t, op, "returned", "", <<>>)]

\* clear_logs.
ClearLogs(t) ==
    /\ th[t].pc = "idle"
    /\ Truncate(t, "clear_logs")
    /\ UNCHANGED <<self, held, pools, fut, console, cbsink, nlog, nsub>>

\* The words the shell splits a path into when it stands unquoted in a command:
\* "my bak" is a name with one blank in it.
Words(p) == IF p = "my bak" THEN <<"my", "bak">> ELSE <<p>>

\* The command line f'cp {self.log_file} {filename}' as the shell reads it; None
\* is rendered as the word None.
CpCommand(log_file, filename) == <<"cp">> \o Words(log_file) \o Words(filename)

\* cp with a source that exists and one target copies the source over the
\* target; with more operands the last one must be a directory, and with a
\* missing source there is nothing to copy: cp fails and changes nothing, and
\* os.system's exit status is dropped.  No file is named None, my, or a
\* directory.
Cp(cmd, files) ==
    IF Len(cmd) = 3 /\ cmd[2] \in DOMAIN files /\ cmd[3] \in DOMAIN files
    THEN [files EXCEPT ![cmd[3]] = files[cmd[2]]]
    ELSE files

\* finishLog of the legacy module (src/log.py, line 168): os.system('cp ...').
FinishLog(t, d) ==
    /\ th[t].pc = "idle"
    /\ fs' = Cp(CpCommand(self.log_file, d), fs)
    /\ th' = [th EXCEPT ![t] = FileCall(t, "fl_clear", d)]
    /\ UNCHANGED <<self, held, pools, fut, console, cbsink, nlog, nsub>>

\* finishLog, line 169: self.clear_logs(), and the return.
FinishLogClear(t) ==
    /\ th[t].pc = "fl_clear"
    /\ Truncate(t, "finishLog")
    /\ UNCHANGED <<self, held, pools, fut, console, cbsink, nlog, nsub>>

----------------------------------------------------------------------------
(* reconfigure *)

\* (mutant) reconfigure through shutdown(wait=False, cancel_futures=True): the
\* work the old pool has not started yet is cancelled.
ReconfigureCancels(t, a, max) ==
    /\ th[t].pc = "idle"
    /\ Len(pools) <= max
    /\ pools' = [pools EXCEPT ![self.executor + 1].shutdown = TRUE]
    /\ fut' = [h \in 1..Len(fut) |->
                 IF fut[h].ex = self.executor /\ fut[h].st = "pending"
                 THEN [fut[h] EXCEPT !.st = "cancelled"] ELSE fut[h]]
    /\ th' = [th EXCEPT ![t] = [IdleThread EXCEPT !.pc = "rc_init", !.args = a]]
    /\ UNCHANGED <<self, held, fs, console, cbsink, nlog, nsub>>

\* reconfigure, line 93: self.executor.shutdown(wait=False).
Reconfigure(t, a, max) ==
    /\ th[t].pc = "idle"
    /\ Len(pools) <= max
    /\ pools' = [pools EXCEPT ![self.executor + 1].shutdown = TRUE]
    /\ th' = [th EXCEPT ![t] = [IdleThread EXCEPT !.pc = "rc_init", !.args = a]]
    /\ UNCHANGED <<self, held, fut, fs, console, cbsink, nlog, nsub>>

\* __init__, lines 65-78: a new Lock, a new group table, the configuration
\* attributes and an empty memory buffer; self.executor is still the old pool.
RcInit(t) ==
    /\ th[t].pc = "rc_init"
    /\ self' = Construct(th[t].args, Len(pools), self.executor)
    /\ th' = [th EXCEPT ![t].pc = "rc_exec"]
    /\ UNCHANGED <<held, pools, fut, fs, console, cbsink, nlog, nsub>>

\* __init__, line 80: self.executor = a new pool; reconfigure returns.
RcExec(t) ==
    /\ th[t].pc = "rc_exec"
    /\ pools' = Append(pools, [max_workers |-> th[t].args.max_workers,
                               shutdown |-> FALSE])
    /\ self' = [self EXCEPT !.executor = Len(pools)]
    /\ th' = [th EXCEPT ![t] = Return(t, NoRet)]
    /\ UNCHANGED <<held, fut, fs, console, cbsink, nlog, nsub>>

----------------------------------------------------------------------------
(* Task pool *)

Done(h) == fut[h].st = "finished"

\* The futures whose task raised.
Failed == {h \in 1..Len(fut) : fut[h].out = "err"}

\* [i.done() for i in self.tasks[group]]
Queue(tasks, g) == [i \in 1..Len(tasks[g]) |-> Done(tasks[g][i])]

\* The text worker_callbacks logs for the error of future h: the type name, the
\* message (the task raises ValueError(str(h))) and the frame trace.
ErrorText(h) == <<"ValueError", ToString(h), "trace">>

\* (mutant) worker_callbacks without the `if e is None: return` guard.
WorkerCallbacksAlways(t, h, out, rest) ==
    [rest EXCEPT !.pc = "wlog_emit", !.tipo = "[critical]",
                 !.content = ErrorText(h), !.plog = WlogPrintLogDefault,
                 !.cont = rest.pc]

\* worker_callbacks(f), lines 226-241, run by thread t: nothing when the task
\* raised nothing, else control.critical(...).  rest is where t goes afterwards.
WorkerCallbacks(t, h, out, rest) ==
    IF out = "ok" THEN [rest EXCEPT !.tipo = "", !.content = <<>>, !.plog = FALSE]
    ELSE [rest EXCEPT !.pc = "wlog_emit", !.tipo = "[critical]",
                      !.content = ErrorText(h), !.plog = WlogPrintLogDefault,
                      !.cont = rest.pc]

\* What submit hands back to its caller: the method has no return statement.
SubmitResult(h) == 0

\* submit, line 110: self.executor.submit(fn, ...); a pool that was shut down
\* raises RuntimeError.
Submit(t, g, beh) ==
    /\ th[t].pc = "idle"
    /\ Len(fut) < MaxTasks
    /\ IF pools[self.executor + 1].shutdown
       THEN /\ th' = [th EXCEPT ![t] =
                        Return(t, [NoRet EXCEPT !.op = "submit", !.out = "raised",
                                                !.err = "RuntimeError", !.g = g])]
            /\ UNCHANGED fut
       ELSE /\ fut' = Append(fut, [st |-> "pending", ex |-> self.executor, beh |-> beh,
                                   out |-> "none", cb |-> FALSE, ncb |-> 0, runs |-> 0,
                                   nfail |-> Cardinality(Failed), g |-> g,
                                   late |-> FALSE])
            /\ th' = [th EXCEPT ![t] = [IdleThread EXCEPT !.pc = "sub_cb", !.g = g,
                                                          !.h = Len(fut) + 1]]
    /\ UNCHANGED <<self, held, pools, fs, console, cbsink, nlog, nsub>>

\* submit, line 111: future.add_done_callback(worker_callbacks); a future that is
\* already done runs the callback at once, in the submitting thread.
SubCb(t) ==
    /\ th[t].pc = "sub_cb"
    /\ LET h == th[t].h IN
        IF Done(h)
        THEN /\ fut' = [fut EXCEPT ![h].ncb = @ + 1]
             /\ th' = [th EXCEPT ![t] =
                         WorkerCallbacks(t, h, fut[h].out, [th[t] EXCEPT !.pc = "sub_chk"])]
        ELSE /\ fut' = [fut EXCEPT ![h].cb = TRUE]
             /\ th' = [th EXCEPT ![t].pc = "sub_chk"]
    /\ UNCHANGED <<self, held, pools, fs, console, cbsink, nlog, nsub>>

\* submit, line 112: if group not in self.tasks.
SubChk(t) ==
    /\ th[t].pc = "sub_chk"
    /\ th' = [th EXCEPT ![t].pc = IF th[t].g \in DOMAIN self.tasks
                                  THEN "sub_app" ELSE "sub_new"]
    /\ UNCHANGED <<self, held, pools, fut, fs, console, cbsink, nlog, nsub>>

\* submit, line 113: self.tasks[group] = [].
SubNew(t) ==
    /\ th[t].pc = "sub_new"
    /\ self' = [self EXCEPT !.tasks =
                  [g \in DOMAIN self.tasks \cup {th[t].g} |->
                     IF g = th[t].g THEN <<>> ELSE self.tasks[g]]]
    /\ th' = [th EXCEPT ![t].pc = "sub_app"]
    /\ UNCHANGED <<held, pools, fut, fs, console, cbsink, nlog, nsub>>

\* submit, line 114: self.tasks[group].append(future), and the return.
SubApp(t) ==
    /\ th[t].pc = "sub_app"
    /\ LET g == th[t].g  h == th[t].h IN
        IF g \in DOMAIN self.tasks
        THEN /\ self' = [self EXCEPT !.tasks[g] = Append(@, h)]
             /\ nsub' = [nsub EXCEPT ![g] = @ + 1]
             /\ th' = [th EXCEPT ![t] =
                         Return(t, [NoRet EXCEPT !.op = "submit", !.out = "returned",
                                                 !.g = g, !.h = h, !.rv = SubmitResult(h)])]
        ELSE /\ th' = [th EXCEPT ![t] =
                         Return(t, [NoRet EXCEPT !.op = "submit", !.out = "raised",
                                                 !.err = "KeyError", !.g = g, !.h = h])]
             /\ UNCHANGED <<self, nsub>>
    /\ UNCHANGED <<held, pools, fut, fs, console, cbsink, nlog>>

\* The futures a worker of executor e is busy with.
Busy(e) == {h \in 1..Len(fut) : fut[h].ex = e /\ (fut[h].st = "running" \/ th[h].pc # "idle")}

\* A worker of the future's pool takes the work item off the queue (first in,
\* first out) and starts running fn; late notes that the pool had been shut down
\* by then.
Start(h) ==
    /\ h <= Len(fut)
    /\ fut[h].st = "pending"
    /\ \A k \in 1..(h - 1) : fut[k].ex = fut[h].ex => fut[k].st # "pending"
    /\ Cardinality(Busy(fut[h].ex)) < pools[fut[h].ex + 1].max_workers
    /\ fut' = [fut EXCEPT ![h].st = "running", ![h].runs = @ + 1,
                          ![h].late = pools[fut[h].ex + 1].shutdown]
    /\ UNCHANGED <<self, held, pools, fs, console, cbsink, th, nlog, nsub>>

\* (mutant) a task that raises breaks its pool, which then refuses new work.
FinishPoison(h) ==
    /\ h <= Len(fut)
    /\ fut[h].st = "running"
    /\ LET out == IF fut[h].beh = "raise" THEN "err" ELSE "ok" IN
        /\ fut' = [fut EXCEPT ![h].st = "finished", ![h].out = out,
                              ![h].ncb = IF fut[h].cb THEN @ + 1 ELSE @]
        /\ th' = [th EXCEPT ![h] =
                    IF fut[h].cb THEN WorkerCallbacks(h, h, out, IdleThread)
                    ELSE IdleThread]
        /\ pools' = IF out = "err"
                    THEN [pools EXCEPT ![fut[h].ex + 1].shutdown = TRUE]
                    ELSE pools
    /\ UNCHANGED <<self, held, fs, console, cbsink, nlog, nsub>>

\* fn returns or raises: the future is done with that outcome, and the worker
\* runs the callbacks registered on it.
Finish(h) ==
    /\ h <= Len(fut)
    /\ fut[h].st = "running"
    /\ LET out == IF fut[h].beh = "raise" THEN "err" ELSE "ok" IN
        /\ fut' = [fut EXCEPT ![h].st = "finished", ![h].out = out,
                              ![h].ncb = IF fut[h].cb THEN @ + 1 ELSE @]
        /\ th' = [th EXCEPT ![h] =
                    IF fut[h].cb THEN WorkerCallbacks(h, h, out, IdleThread)
                    ELSE IdleThread]
    /\ UNCHANGED <<self, held, pools, fs, console, cbsink, nlog, nsub>>

\* wait, lines 208-209: return at once for a group that is not in the table.
\* snap records the handles of the group when wait is called.
Wait(t, g) ==
    /\ th[t].pc = "idle"
    /\ th' = [th EXCEPT ![t] =
                IF g \in DOMAIN self.tasks
                THEN [IdleThread EXCEPT !.pc = "wait_poll", !.g = g, !.snap = self.tasks[g]]
                ELSE Return(t, [NoRet EXCEPT !.op = "wait", !.out = "returned", !.g = g])]
    /\ UNCHANGED <<self, held, pools, fut, fs, console, cbsink, nlog, nsub>>

\* (mutant) wait polls every future of the pool, whatever its group.
WaitQueueAll(g) == [i \in 1..Len(fut) |-> Done(i)]

\* The done flags one poll of wait(g) reads.
WaitQueue(g) == Queue(self.tasks, g)

\* (mutant) wait polls the handles it found in the group when it was called.
WaitPollSnapshot(t) ==
    /\ th[t].pc = "wait_poll"
    /\ IF \E i \in 1..Len(th[t].snap) : ~Done(th[t].snap[i])
       THEN UNCHANGED th
       ELSE th' = [th EXCEPT ![t] =
                     Return(t, [NoRet EXCEPT !.op = "wait", !.out = "returned",
                                             !.g = th[t].g, !.q = th[t].snap])]
    /\ UNCHANGED <<self, held, pools, fut, fs, console, cbsink, nlog, nsub>>

\* wait, lines 210-213: read the group's done flags; sleep and read again while
\* one is False, else return.  A group missing from the table raises KeyError.
WaitPoll(t) ==
    /\ th[t].pc = "wait_poll"
    /\ LET g == th[t].g IN
        IF g \notin DOMAIN self.tasks
        THEN th' = [th EXCEPT ![t] =
                      Return(t, [NoRet EXCEPT !.op = "wait", !.out = "raised",
                                              !.err = "KeyError", !.g = g,
                                              !.q = th[t].snap])]
        ELSE IF \E i \in 1..Len(WaitQueue(g)) : ~WaitQueue(g)[i]
        THEN UNCHANGED th
        ELSE th' = [th EXCEPT ![t] =
                      Return(t, [NoRet EXCEPT !.op = "wait", !.out = "returned",
                                              !.g = g, !.q = th[t].snap])]
    /\ UNCHANGED <<self, held, pools, fut, fs, console, cbsink, nlog, nsub>>

\* (mutant) get_queue through self.tasks.setdefault(group, []): an unknown group
\* is created and reported empty.
GetQueueCreates(t, g) ==
    /\ th[t].pc = "idle"
    /\ self' = [self EXCEPT !.tasks =
                  [k \in DOMAIN self.tasks \cup {g} |->
                     IF k \in DOMAIN self.tasks THEN self.tasks[k] ELSE <<>>]]
    /\ th' = [th EXCEPT ![t] =
                Return(t, [NoRet EXCEPT !.op = "get_queue", !.out = "returned",
                                        !.g = g, !.cnt = nsub[g],
                                        !.q = IF g \in DOMAIN self.tasks
                                              THEN Queue(self.tasks, g) ELSE <<>>])]
    /\ UNCHANGED <<held, pools, fut, fs, console, cbsink, nlog, nsub>>

\* get_queue, line 132.
GetQueue(t, g) ==
    /\ th[t].pc = "idle"
    /\ th' = [th EXCEPT ![t] =
                IF g \in DOMAIN self.tasks
                THEN Return(t, [NoRet EXCEPT !.op = "get_queue", !.out = "returned",
                                             !.g = g, !.q = Queue(self.tasks, g),
                                             !.cnt = nsub[g]])
                ELSE Return(t, [NoRet EXCEPT !.op = "get_queue", !.out = "raised",
                                             !.err = "KeyError", !.g = g])]
    /\ UNCHANGED <<self, held, pools, fut, fs, console, cbsink, nlog, nsub>>

----------------------------------------------------------------------------
(* Specifications *)

\* The steps of a thread inside submit or wait, and of the pools' workers.
PoolSteps ==
    \/ \E t \in Callers : SubCb(t) \/ SubChk(t) \/ SubNew(t) \/ SubApp(t)
    \/ \E h \in Handles : Start(h) \/ Finish(h)
    \/ WaitPoll(Aux)

\* The steps of a thread inside wlog when no log file was ever configured.
ConsoleSteps == \E t \in Threads : WlogEmit(t) \/ WlogLock(t)

\* The steps of a thread inside wlog.
LogSteps == \E t \in Threads : WlogEmit(t) \/ WlogLock(t) \/ WlogWrite(t)

PoolCalls ==
    \/ \E t \in Callers : \E g \in Groups : \E beh \in {"ok", "raise"} : Submit(t, g, beh)
    \/ \E g \in Groups : Wait(Aux, g) \/ GetQueue(Main, g)

LogCalls ==
    \/ Info(Main) \/ Info(Aux) \/ Time(Main) \/ Warn(Main) \/ Critical(Main) \/ Debug(Main)

ReconfigureSteps == RcInit(Main) \/ RcExec(Main)

\* An application that uses the pool and never reconfigures it.
NextTasks == PoolCalls \/ PoolSteps \/ ConsoleSteps
SpecTasks == Init /\ [][NextTasks]_vars

\* An application that uses the pool while Main reconfigures it.
NextPool ==
    \/ PoolCalls \/ PoolSteps \/ LogSteps
    \/ \E a \in ArgSets : Reconfigure(Main, a, MaxPoolReconf)
    \/ ReconfigureSteps
SpecPool == Init /\ [][NextPool]_vars

\* An application that logs from two threads while Main reconfigures.
NextLog ==
    \/ LogCalls \/ LogSteps
    \/ \E a \in ArgSets : Reconfigure(Main, a, MaxReconf)
    \/ ReconfigureSteps
SpecLog == Init /\ [][NextLog]_vars

\* The scheduler runs every thread that can take a step: a worker that can pick
\* up or finish a work item does so, and a thread inside a call goes on.
Fairness ==
    /\ \A h \in Handles : WF_vars(Start(h)) /\ WF_vars(Finish(h))
    /\ \A t \in Threads : /\ WF_vars(WlogEmit(t)) /\ WF_vars(WlogLock(t))
                          /\ WF_vars(WlogWrite(t))
    /\ \A t \in Callers : /\ WF_vars(SubCb(t)) /\ WF_vars(SubChk(t))
                          /\ WF_vars(SubNew(t)) /\ WF_vars(SubApp(t))

SpecTasksFair == SpecTasks /\ Fairness

\* An application whose main thread submits and polls get_queue while Aux waits.
NextSolo ==
    \/ \E g \in Groups : \E beh \in {"ok", "raise"} : Submit(Main, g, beh)
    \/ SubCb(Main) \/ SubChk(Main) \/ SubNew(Main) \/ SubApp(Main)
    \/ \E h \in Handles : Start(h) \/ Finish(h)
    \/ \E g \in Groups : Wait(Aux, g) \/ GetQueue(Main, g)
    \/ WaitPoll(Aux)
    \/ ConsoleSteps
SpecSolo == Init /\ [][NextSolo]_vars

\* An application whose main thread only submits, under a fair scheduler.
NextRun ==
    \/ \E g \in Groups : \E beh \in {"ok", "raise"} : Submit(Main, g, beh)
    \/ SubCb(Main) \/ SubChk(Main) \/ SubNew(Main) \/ SubApp(Main)
    \/ \E h \in Handles : Start(h) \/ Finish(h)
    \/ ConsoleSteps
SpecRunFair == Init /\ [][NextRun]_vars /\ Fairness

\* The steps of a thread inside get_logs or finishLog.
FileSteps == GetLogsRead(Aux) \/ FinishLogClear(Aux)

FileCalls == GetLogs(Aux) \/ ClearLogs(Aux) \/ (\E d \in Dests : FinishLog(Aux, d))

\* An application that logs from two threads, reads, clears and rotates the log
\* file from one of them, while Main reconfigures.
NextFiles ==
    \/ Info(Main) \/ Info(Aux) \/ LogSteps
    \/ FileCalls \/ FileSteps
    \/ \E a \in ArgSets : Reconfigure(Main, a, MaxReconf)
    \/ ReconfigureSteps
SpecFiles == Init /\ [][NextFiles]_vars

\* An application that logs debug messages from two threads while Main
\* reconfigures.
NextDebug ==
    \/ Debug(Main) \/ Debug(Aux) \/ LogSteps
    \/ \E a \in ArgSets \cup {QuietDebugArgs} : Reconfigure(Main, a, MaxReconf)
    \/ ReconfigureSteps
SpecDebug == Init /\ [][NextDebug]_vars

\* The import of the module on hosts of every size, and then the application of
\* NextRun.
NextImport == Import(Main) \/ NextRun
SpecImport == InitImport /\ [][NextImport]_vars

\* An application whose main thread submits tasks that return and reconfigures
\* while they are pending or running, under a fair scheduler.
NextRestart ==
    \/ \E g \in Groups : Submit(Main, g, "ok")
    \/ SubCb(Main) \/ SubChk(Main) \/ SubNew(Main) \/ SubApp(Main)
    \/ \E h \in Handles : Start(h) \/ Finish(h)
    \/ \E a \in ArgSets : Reconfigure(Main, a, MaxPoolReconf)
    \/ ReconfigureSteps
SpecRestartFair == Init /\ [][NextRestart]_vars /\ Fairness

\* The same with Aux submitting, also inside Main's reconfigure, tasks that
\* return or raise.
NextRestartAll ==
    \/ \E g \in Groups : \E beh \in {"ok", "raise"} : Submit(Aux, g, beh)
    \/ SubCb(Aux) \/ SubChk(Aux) \/ SubNew(Aux) \/ SubApp(Aux)
    \/ \E h \in Handles : Start(h) \/ Finish(h)
    \/ LogSteps
    \/ \E a \in ArgSets : Reconfigure(Main, a, MaxPoolReconf)
    \/ ReconfigureSteps
SpecRestartAllFair == Init /\ [][NextRestartAll]_vars /\ Fairness

\* The arguments that turn on the log file and the memory buffer.
RetainArgs == CHOOSE a \in ArgSets : a.log_file # None /\ a.keep_in_memory

\* The state after the import and one control.reconfigure(**RetainArgs): the
\* first pool is shut down, the second is the executor, the log file is empty.
InitRetain ==
    /\ self = Construct(RetainArgs, 1, 1)
    /\ held = {}
    /\ pools = << [max_workers |-> InitArgs.max_workers, shutdown |-> TRUE],
                  [max_workers |-> RetainArgs.max_workers, shutdown |-> FALSE] >>
    /\ fut = <<>>
    /\ fs = [p \in Paths |-> <<>>]
    /\ console = <<>>
    /\ cbsink = <<>>
    /\ th = [t \in Threads |-> IdleThread]
    /\ nlog = 0
    /\ nsub = [g \in Groups |-> 0]

\* An application that has configured the log file and the memory buffer and
\* then logs from two threads, with no reconfigure, clear_logs or finishLog.
NextRetain == LogCalls \/ LogSteps
SpecRetain == InitRetain /\ [][NextRetain]_vars

----------------------------------------------------------------------------
(* Properties *)

AllDone(hs) == \A i \in 1..Len(hs) : Done(hs[i])

\* No reconfigure call has started yet.
NeverReconfigured == Len(pools) = 1 /\ ~pools[1].shutdown

\* C1: when wait(G) has returned, every handle that was in G's sequence when
\* wait(G) was called is done.
C1_WaitedHandlesDone ==
    \A t \in Callers :
        (th[t].ret.op = "wait" /\ th[t].ret.out = "returned") => AllDone(th[t].ret.q)

\* C2: a submit that returns hands back the handle it appended to the group.
C2_SubmitReturnsHandle ==
    \A t \in Callers :
        (th[t].ret.op = "submit" /\ th[t].ret.out = "returned")
            => th[t].ret.rv = th[t].ret.h

\* C3: get_queue(G) is as long as the number of submit(..., group=G) calls that
\* returned before it; stated for the runs in which the table was never replaced
\* by reconfigure, where only concurrent submitters touch it.
C3_QueueLengthIsSubmitCount ==
    \A t \in Callers :
        (th[t].ret.op = "get_queue" /\ th[t].ret.out = "returned" /\ NeverReconfigured)
            => Len(th[t].ret.q) = th[t].ret.cnt

\* The poll of wait that thread t is about to make ends the wait.
WaitReturns(t) == WaitPoll(t) /\ th'[t].pc = "idle" /\ th'[t].ret.out = "returned"

\* C4: a wait on group g that is polling returns at its next poll exactly when
\* all of g's handles are done, whatever the state of the other groups' handles.
C4_GroupsIndependent ==
    \A t \in Callers :
        (th[t].pc = "wait_poll" /\ th[t].g \in DOMAIN self.tasks)
            => (ENABLED WaitReturns(t) <=> AllDone(self.tasks[th[t].g]))

\* wait("A") has returned, having waited for at least one handle, while a handle
\* of group "default" is still not done.
C4_Witness ==
    /\ th[Aux].ret.op = "wait" /\ th[Aux].ret.out = "returned" /\ th[Aux].ret.g = "A"
    /\ Len(th[Aux].ret.q) > 0
    /\ \E i \in 1..Len(self.tasks["default"]) : ~Done(self.tasks["default"][i])

\* The printed critical lines that report the error of future h.
CriticalLines(h) ==
    {i \in 1..Len(console) :
        /\ Len(console[i]) = 4 + Len(ErrorText(h))
        /\ console[i][2] = "[critical]"
        /\ SubSeq(console[i], 5, Len(console[i])) = ErrorText(h)}

\* The completion hook of future h has run to the point where the line is out.
HookEmitted(h) ==
    /\ fut[h].ncb > 0
    /\ ~\E t \in Threads : th[t].pc = "wlog_emit" /\ th[t].content = ErrorText(h)

\* C5: a task that raised ends Failed with its error, and its completion hook
\* emits exactly one critical line with the error's type name and message; a
\* task that did not raise gets no critical line; no hook runs twice.
C5_OneCriticalPerFailure ==
    \A h \in 1..Len(fut) :
        /\ fut[h].ncb <= 1
        /\ (Done(h) /\ fut[h].beh = "raise") => fut[h].out = "err"
        /\ Cardinality(CriticalLines(h)) =
              IF fut[h].out = "err" /\ HookEmitted(h) THEN 1 ELSE 0

\* A task has failed and its one critical line is out; another task completed
\* normally and has none.
C5_Witness ==
    \E h, k \in 1..Len(fut) :
        /\ fut[h].out = "err" /\ Cardinality(CriticalLines(h)) = 1
        /\ fut[k].out = "ok" /\ fut[k].ncb = 1

\* C6: a failed task is final and runs once; a task's failure never shuts its
\* pool down; and once a task has failed every accepted task still ends.
C6_NoPoison ==
    /\ [][\A h \in 1..Len(fut) :
            fut[h].out = "err" =>
                /\ fut'[h].st = "finished" /\ fut'[h].out = "err" /\ fut'[h].runs = 1]_vars
    /\ [][\A e \in 1..Len(pools) :
            (pools'[e].shutdown /\ ~pools[e].shutdown) => th'[Main].pc = "rc_init"]_vars
    /\ \A h \in Handles :
            (Failed # {} /\ h <= Len(fut)) ~> (h <= Len(fut) /\ Done(h))

\* A task submitted after another had failed has run to normal completion.
C6_Witness ==
    \E h \in 1..Len(fut) :
        fut[h].nfail > 0 /\ fut[h].out = "ok" /\ fut[h].runs = 1

\* The line wlog renders for info, warn or debug in the two formats.
FullLine(tipo, content) == <<"ts", tipo, "file", "func">> \o content
SimpleLine(tipo, content) == <<tipo>> \o content

\* C7: a line of info, warn or debug has the full format when the simplified
\* option was configured off, and the simplified one exactly when it was on.
C7_FormatFollowsOption ==
    [][\A t \in Threads :
         (th[t].pc = "wlog_emit" /\ th'[t].pc = "wlog_lock"
            /\ th[t].tipo \in {"[info]", "[warning]", "[debug]"})
         => th'[t].msg = IF self.simple_log[1]
                         THEN SimpleLine(th[t].tipo, th[t].content)
                         ELSE FullLine(th[t].tipo, th[t].content)]_vars

\* C8: with the console-echo flag configured off nothing is printed.
C8_ConsoleFollowsFlag == [][console' # console => self.print_log]_vars

\* C9: at most one thread is inside the open-append-write-close section.
C9_FileSectionExclusive ==
    Cardinality({t \in Threads : th[t].pc = "wlog_write"}) <= 1

\* C10: no submit is rejected by a pool that reconfigure has shut down.
C10_SubmitNeverRejected ==
    \A t \in Callers : ~(th[t].ret.op = "submit" /\ th[t].ret.err = "RuntimeError")

\* No accepted task was ever submitted to group g.
NeverSubmitted(g) == \A h \in 1..Len(fut) : fut[h].g # g

\* What C11 says of the calls wait(g) and get_queue(g) on a group g: wait does
\* not block (it returns on line 209, or its first read of the flags on line
\* 210 finds none False), get_queue raises the lookup error, and the group
\* table stays as it is.
UnknownGroupCalls(g) ==
    /\ Wait(Aux, g) => /\ \/ th'[Aux].pc = "idle" /\ th'[Aux].ret.out = "returned"
                          \/ /\ th'[Aux].pc = "wait_poll"
                             /\ g \in DOMAIN self.tasks /\ AllDone(self.tasks[g])
                       /\ self'.tasks = self.tasks
    /\ GetQueue(Main, g) => /\ th'[Main].ret.out = "raised"
                            /\ th'[Main].ret.err = "KeyError"
                            /\ self'.tasks = self.tasks

\* C11 (as stated): for every group name that no task was submitted to, wait
\* returns at once, get_queue fails with the lookup error, and neither call
\* changes the group table.
C11_UnknownGroup ==
    [][\A g \in Groups : NeverSubmitted(g) => UnknownGroupCalls(g)]_vars

\* C11 (amended): the same for every such group name other than "default",
\* which the constructor puts in the table.
C11_UnknownGroupNotDefault ==
    [][\A g \in Groups \ {"default"} : NeverSubmitted(g) => UnknownGroupCalls(g)]_vars

\* wait("A") has returned and get_queue("A") has raised KeyError while tasks
\* went to "default" only, and "A" is still not in the table.
C11_Witness ==
    /\ th[Aux].ret.op = "wait" /\ th[Aux].ret.out = "returned" /\ th[Aux].ret.g = "A"
    /\ th[Main].ret.op = "get_queue" /\ th[Main].ret.err = "KeyError"
    /\ th[Main].ret.g = "A"
    /\ NeverSubmitted("A") /\ Len(fut) > 0
    /\ "A" \notin DOMAIN self.tasks

\* C12: called when no log file is configured, get_logs, clear_logs and
\* finishLog each end with the "no log file" error, and no step of them changes
\* the logger's attributes or a file.
C12_NoLogFileError ==
    [][/\ (self.log_file = None /\ (GetLogs(Aux) \/ ClearLogs(Aux)))
            => /\ th'[Aux].ret.out = "raised" /\ th'[Aux].ret.err = NoLogFileError
               /\ self' = self /\ fs' = fs
       /\ (self.log_file = None /\ \E d \in Dests : FinishLog(Aux, d))
            => self' = self /\ fs' = fs
       /\ (th[Aux].file = None /\ FinishLogClear(Aux))
            => /\ th'[Aux].ret.out = "raised" /\ th'[Aux].ret.err = NoLogFileError
               /\ self' = self /\ fs' = fs]_vars

\* C13: with a log file configured (and not replaced during the call), when
\* finishLog(path) returns the file at path holds the lines the live log file
\* held when finishLog was called and the live log file is empty, so that
\* get_logs would read no line; clear_logs leaves the live log file empty too.
C13_FinishLogRotates ==
    [][/\ (FinishLogClear(Aux) /\ th[Aux].file # None /\ self.log_file = th[Aux].file)
            => /\ th'[Aux].ret.out = "returned"
               /\ fs'[th[Aux].dest] = th[Aux].had
               /\ fs'[th[Aux].file] = <<>>
       /\ (ClearLogs(Aux) /\ self.log_file # None)
            => /\ th'[Aux].ret.out = "returned"
               /\ fs'[self.log_file] = <<>>]_vars

\* C14: debug(msg) with debug mode off returns at once and leaves console, log
\* file, memory buffer and callback as they are; with debug mode on it goes into
\* wlog with the tag [debug], and that wlog puts its one line on the console
\* exactly when console echo is configured and in the memory buffer exactly when
\* retention is configured.  Stated for the calls of Main, the thread that
\* reconfigures, so that the configuration is the same throughout a call.
C14_DebugFollowsMode ==
    [][\A t \in {Main} :
        /\ (Debug(t) /\ ~self.debug_mode)
             => /\ th'[t].pc = "idle"
                /\ UNCHANGED <<console, fs, cbsink>> /\ self'.memory = self.memory
        /\ (Debug(t) /\ self.debug_mode)
             => th'[t].pc = "wlog_emit" /\ th'[t].tipo = "[debug]"
        /\ (th[t].tipo = "[debug]" /\ WlogEmit(t))
             => /\ \E i \in 1..Len(th'[t].msg) : th'[t].msg[i] = "[debug]"
                /\ console' = IF self.print_log THEN Append(console, th'[t].msg)
                               ELSE console
                /\ self'.memory = IF self.keep_in_memory
                                   THEN Append(self.memory, th'[t].msg)
                                   ELSE self.memory]_vars

\* max(1, n)
AtLeastOne(n) == IF n < 1 THEN 1 ELSE n

\* C15: on a host with n >= 1 logical CPUs the construction with default
\* parameters succeeds and the pool has max(1, n - 2) workers.
C15_DefaultWorkersFloored ==
    th[Main].ret.op = "import"
        => /\ th[Main].ret.out = "returned"
           /\ Len(pools) = 1
           /\ pools[1].max_workers = AtLeastOne(th[Main].ret.cpus - 2)
           /\ self.workers = AtLeastOne(th[Main].ret.cpus - 2)

\* The handles of sequence hs that are not in sequence old.
Later(hs, old) == {hs[i] : i \in 1..Len(hs)} \ {old[i] : i \in 1..Len(old)}

\* C16 (as stated): a polling wait(G) whose call-time handles are all done
\* returns at its next poll, whatever was submitted to G since.
C16_WaitsForCallTimeHandles ==
    \A t \in Callers :
        (th[t].pc = "wait_poll" /\ AllDone(th[t].snap)) => ENABLED WaitReturns(t)

\* C16 (amended): a polling wait(G) waits for the handles G holds at the poll:
\* it returns at its next poll when all of them are done, and a handle
\* submitted to G after the call and not yet done keeps it from returning.
C16_LaterSubmitsAwaited ==
    \A t \in Callers :
        (th[t].pc = "wait_poll" /\ th[t].g \in DOMAIN self.tasks)
            => /\ AllDone(self.tasks[th[t].g]) => ENABLED WaitReturns(t)
               /\ (\E h \in Later(self.tasks[th[t].g], th[t].snap) : ~Done(h))
                     => ~ENABLED WaitReturns(t)

\* wait(G) is polling, every handle G held when it was called is done, and a
\* handle submitted to G since is not.
C16_Witness ==
    /\ th[Aux].pc = "wait_poll" /\ th[Aux].g \in DOMAIN self.tasks
    /\ Len(th[Aux].snap) > 0 /\ AllDone(th[Aux].snap)
    /\ \E h \in Later(self.tasks[th[Aux].g], th[Aux].snap) : ~Done(h)

\* Sequence a is a prefix of sequence b.
IsPrefix(a, b) == Len(a) <= Len(b) /\ SubSeq(b, 1, Len(a)) = a

\* C17: no step removes a group or a handle: every group's sequence is a prefix
\* of what it is after the step, so that handles stay in the order in which
\* they were appended; and a handle that is done stays done.
C17_GroupsOnlyGrow ==
    [][/\ \A g \in DOMAIN self.tasks :
             g \in DOMAIN self'.tasks /\ IsPrefix(self.tasks[g], self'.tasks[g])
       /\ \A h \in 1..Len(fut) : Done(h) => fut'[h].st = "finished"]_vars

\* C18: no call of wait ends in an error.
C18_WaitNeverRaises ==
    \A t \in Callers : ~(th[t].ret.op = "wait" /\ th[t].ret.out = "raised")

\* The handles the group table holds.
Reachable == UNION {{self.tasks[g][i] : i \in 1..Len(self.tasks[g])} : g \in DOMAIN self.tasks}

\* C19: an accepted task is never dropped or cancelled (its future stays, and
\* goes from pending to running to finished only), and it ends, also when
\* reconfigure has shut its pool down and taken its handle out of the table.
C19_AcceptedWorkEnds ==
    /\ [][\A h \in 1..Len(fut) :
            /\ h <= Len(fut')
            /\ <<fut[h].st, fut'[h].st>> \in
                  {<<"pending", "pending">>, <<"pending", "running">>,
                   <<"running", "running">>, <<"running", "finished">>,
                   <<"finished", "finished">>}]_vars
    /\ \A h \in Handles : (h <= Len(fut)) ~> (h <= Len(fut) /\ Done(h))

\* A task has ended whose pool was shut down by reconfigure before the task
\* started, and whose handle the group table no longer holds.
C19_Witness ==
    \E h \in 1..Len(fut) :
        /\ Done(h) /\ fut[h].late
        /\ h \notin Reachable

\* No thread is inside a logging call.
NoLogCallInProgress == \A t \in Threads : th[t].pc = "idle"

\* The number of times line x occurs in the sequence of lines s.
Count(s, x) == Cardinality({i \in 1..Len(s) : s[i] = x})

\* The sequences a and b hold the same lines, each as many times.
SameLines(a, b) ==
    /\ Len(a) = Len(b)
    /\ \A i \in 1..Len(a) : Count(a, a[i]) = Count(b, a[i])

\* C20 (as stated): with the log file and the memory buffer on, whenever no
\* log call is in progress the buffer and the file hold the same lines in the
\* same order.
C20_MemoryEqualsFile ==
    NoLogCallInProgress => self.memory = fs[self.log_file]

\* C20 (amended): ... the buffer and the file hold the same lines, each as many
\* times, in an order that may differ.
C20_MemoryAndFileSameLines ==
    NoLogCallInProgress => SameLines(self.memory, fs[self.log_file])

\* Two threads have logged and returned, and the buffer and the file hold the
\* two lines in opposite orders.
C20_Witness ==
    /\ NoLogCallInProgress
    /\ Len(self.memory) = 2 /\ Len(fs[self.log_file]) = 2
    /\ self.memory[1] = fs[self.log_file][2] /\ self.memory[2] = fs[self.log_file][1]
    /\ self.memory[1] # self.memory[2]

====
